---- MODULE Spec2Model ----
(***************************************************************************)
(* Red-black tree of sevagh/red-black-tree: the arena backend              *)
(* (src/src/slab.rs, SlabRedBlack over a Slab of nodes) and the            *)
(* direct-ownership backend (src/src/pointer.rs, PointerRedBlack over      *)
(* individually boxed nodes), driven by the same sequence of insert,       *)
(* delete and search calls.                                                *)
(***************************************************************************)
EXTENDS Integers, Sequences, FiniteSets, Bags, TLC

(* ---------------------------------------------------------------------- *)
(* Bounds                                                                  *)
(* ---------------------------------------------------------------------- *)

\* keys are 1..MaxKey (duplicates allowed)
MaxKey == 3

\* an insert is issued only while fewer than MaxNodes real nodes are live
MaxNodes == 4

\* a recorded run makes at most MaxCalls insert and delete calls
MaxCalls == 5

\* the deep runs draw their keys from 1..DeepMaxKey and keep at most
\* DeepMaxNodes real nodes live
DeepMaxKey == 2

DeepMaxNodes == 6

TallMaxKey == 10

TallMinNodes == 6

Keys == 1 .. MaxKey

DeepKeys == 1 .. DeepMaxKey

TallKeys == 1 .. TallMaxKey

\* values the uninitialised key of the sentinel may turn out to hold
UninitKeys == 0 .. 1

Dirs == {0, 1}

\* dir ^ 1 on a direction
Flip(dir) == 1 - dir

(* ---------------------------------------------------------------------- *)
(* Option<T>                                                               *)
(* ---------------------------------------------------------------------- *)

None == [tag |-> "None", val |-> 0]

Some(v) == [tag |-> "Some", val |-> v]

\* the value of a call whose body returns nothing
Unit == [tag |-> "Unit", val |-> 0]

(* ---------------------------------------------------------------------- *)
(* Arena backend: src/src/slab.rs                                          *)
(* ---------------------------------------------------------------------- *)

\* const NULL: usize = !0 (the all-ones word, written here as -1)
NULL == 0 - 1

\* Node::new
Node_new(key, nil_sentinel) ==
    [parent |-> nil_sentinel,
     children |-> [d \in Dirs |-> nil_sentinel],
     key |-> key,
     red |-> FALSE]

\* an occupied slot of the slab
Occupied(node) == [occupied |-> TRUE, next |-> 0, node |-> node]

\* a vacant slot of the slab: it only remembers the next slot of the free list
Vacant(next) == [occupied |-> FALSE, next |-> next, node |-> Node_new(0, NULL)]

\* Slab::new
Slab_new == [entries |-> <<>>, next |-> 0]

\* slot i of the slab is entries[i + 1]
Slab_len(slab) == Len(slab.entries)

\* Slab::insert: take the head of the free list, or push a new slot
Slab_insert(slab, node) ==
    LET key == slab.next IN
    IF key = Slab_len(slab)
    THEN [slab |-> [entries |-> Append(slab.entries, Occupied(node)), next |-> key + 1],
          key |-> key]
    ELSE [slab |-> [entries |-> [slab.entries EXCEPT ![key + 1] = Occupied(node)],
                    next |-> slab.entries[key + 1].next],
          key |-> key]

\* Slab::remove: the slot becomes the head of the free list
Slab_remove(slab, key) ==
    [entries |-> [slab.entries EXCEPT ![key + 1] = Vacant(slab.next)],
     next |-> key]

\* field reads self.slab[h].f
Parent(rb, h) == rb.slab.entries[h + 1].node.parent

Child(rb, h, dir) == rb.slab.entries[h + 1].node.children[dir]

Key(rb, h) == rb.slab.entries[h + 1].node.key

Red(rb, h) == rb.slab.entries[h + 1].node.red

\* field writes self.slab[h].f = v
SetParent(rb, h, v) == [rb EXCEPT !.slab.entries[h + 1].node.parent = v]

SetChild(rb, h, dir, v) == [rb EXCEPT !.slab.entries[h + 1].node.children[dir] = v]

SetKey(rb, h, v) == [rb EXCEPT !.slab.entries[h + 1].node.key = v]

SetRed(rb, h, v) == [rb EXCEPT !.slab.entries[h + 1].node.red = v]

\* SlabRedBlack::new; u is the value the sentinel's uninitialised key holds
SlabRedBlack_at(r) == [slab |-> r.slab, root |-> r.key, nil_sentinel |-> r.key]

SlabRedBlack_new(u) == SlabRedBlack_at(Slab_insert(Slab_new, Node_new(u, NULL)))

\* rotate: self.slab[x].children[dir ^ 1] = self.slab[y].children[dir]
rotate_take(rb, x, dir, y) == SetChild(rb, x, Flip(dir), Child(rb, y, dir))

\* rotate without the statement that gives y's child on side dir its new parent
rotate_adopt_skip(rb, x, dir, y) == rb

\* rotate: y's child on side dir, when real, gets x as parent
rotate_adopt(rb, x, dir, y) ==
    LET y_chld == Child(rb, y, dir) IN
    IF y_chld # rb.nil_sentinel THEN SetParent(rb, y_chld, x) ELSE rb

\* rotate without the statement that hands x's parent to y
rotate_lift_skip(rb, x, y) == rb

\* rotate: self.slab[y].parent = self.slab[x].parent
rotate_lift(rb, x, y) == SetParent(rb, y, Parent(rb, x))

\* rotate: y takes x's place under x's parent, or as root
rotate_relink(rb, x, y) ==
    LET x_parent == Parent(rb, x) IN
    IF x_parent = rb.nil_sentinel
    THEN [rb EXCEPT !.root = y]
    ELSE SetChild(rb, x_parent, IF Child(rb, x_parent, 0) = x THEN 0 ELSE 1, y)

\* SlabRedBlack::rotate
rotate(rb, x, dir) ==
    LET y == Child(rb, x, Flip(dir)) IN
    SetParent(
        SetChild(
            rotate_relink(
                rotate_lift(
                    rotate_adopt(rotate_take(rb, x, dir, y), x, dir, y),
                    x, y),
                x, y),
            y, dir, x),
        x, y)

\* SlabRedBlack::tree_minimum
RECURSIVE tree_minimum(_, _)
tree_minimum(rb, x) ==
    LET l == Child(rb, x, 0) IN
    IF l # rb.nil_sentinel THEN tree_minimum(rb, l) ELSE x

\* the loop of SlabRedBlack::tree_successor: climb while x is a right child
RECURSIVE tree_successor_climb(_, _, _)
tree_successor_climb(rb, x, y) ==
    IF y # rb.nil_sentinel /\ x = Child(rb, y, 1)
    THEN tree_successor_climb(rb, y, Parent(rb, y))
    ELSE y

\* SlabRedBlack::tree_successor
tree_successor(rb, x) ==
    IF Child(rb, x, 1) # rb.nil_sentinel
    THEN tree_minimum(rb, x)
    ELSE tree_successor_climb(rb, x, Parent(rb, x))

RECURSIVE insert_fixup_loop(_, _, _)

\* insert_fixup, red uncle: after the recolouring z = pp and p is recomputed
insert_fixup_up(rb, pp) == insert_fixup_loop(rb, pp, Parent(rb, pp))

\* insert_fixup, black uncle: recolour p and pp, rotate pp, go back to the loop test
insert_fixup_straight(rb, z, p, pp, dir) ==
    insert_fixup_loop(rotate(SetRed(SetRed(rb, p, FALSE), pp, TRUE), pp, dir), z, p)

\* insert_fixup, black uncle and z an inner child: p and pp are recomputed
\* after the rotation of z
insert_fixup_bent(rb, z, dir) ==
    insert_fixup_straight(rb, z, Parent(rb, z), Parent(rb, Parent(rb, z)), dir)

\* the while loop of SlabRedBlack::insert_fixup, with its locals z and p
insert_fixup_loop(rb, z, p0) ==
    IF ~Red(rb, p0) THEN rb
    ELSE
      LET p == Parent(rb, z)
          pp == Parent(rb, p)
          dir == IF Child(rb, pp, 0) = p THEN 1 ELSE 0
          y == Child(rb, pp, dir)
      IN IF Red(rb, y)
         THEN insert_fixup_up(SetRed(SetRed(SetRed(rb, p, FALSE), y, FALSE), pp, TRUE), pp)
         ELSE IF z = Child(rb, p, dir)
              THEN insert_fixup_bent(rotate(rb, p, Flip(dir)), p, dir)
              ELSE insert_fixup_straight(rb, z, p, pp, dir)

\* insert_fixup as the unfinished variant that only blackens the root
insert_fixup_blacken_only(rb, z) == SetRed(rb, rb.root, FALSE)

\* insert_fixup without its last statement, the blackening of the root
insert_fixup_no_blacken(rb, z) == insert_fixup_loop(rb, z, Parent(rb, z))

\* insert_fixup: blacken the root
insert_fixup_blacken(rb) == SetRed(rb, rb.root, FALSE)

\* SlabRedBlack::insert_fixup
insert_fixup(rb, z) == insert_fixup_blacken(insert_fixup_loop(rb, z, Parent(rb, z)))

RECURSIVE delete_fixup_loop(_, _)

\* delete_fixup, far child of w red: recolour w, p and wc, rotate p, x = root
delete_fixup_at_root(rb) == delete_fixup_loop(rb, rb.root)

delete_fixup_far_red(rb, p, w, wc, dir) ==
    delete_fixup_at_root(
        rotate(SetRed(SetRed(SetRed(rb, w, Red(rb, p)), p, FALSE), wc, FALSE),
               p, Flip(dir)))

\* delete_fixup: w and wc are recomputed after the rotation of w
delete_fixup_near_red(rb, p, dir) ==
    delete_fixup_far_red(rb, p, Child(rb, p, dir), Child(rb, Child(rb, p, dir), dir), dir)

\* delete_fixup painting red the child of p on x's side in place of w
delete_fixup_redden_near(rb, p, dir) == SetRed(rb, Child(rb, p, Flip(dir)), TRUE)

\* delete_fixup, both children of w black: w, the child of p on side dir, turns red
delete_fixup_redden(rb, p, dir) == SetRed(rb, Child(rb, p, dir), TRUE)

\* delete_fixup, from the black sibling w on
delete_fixup_sibling(rb, p, w, dir) ==
    IF ~Red(rb, Child(rb, w, 0)) /\ ~Red(rb, Child(rb, w, 1))
    THEN delete_fixup_loop(delete_fixup_redden(rb, p, dir), p)
    ELSE LET wc == Child(rb, w, dir)
             wo == Child(rb, w, Flip(dir))
         IN IF ~Red(rb, wc)
            THEN delete_fixup_near_red(
                     rotate(SetRed(SetRed(rb, wo, FALSE), w, TRUE), w, dir), p, dir)
            ELSE delete_fixup_far_red(rb, p, w, wc, dir)

\* delete_fixup: w is recomputed after the rotation of p
delete_fixup_black_sibling(rb, p, dir) == delete_fixup_sibling(rb, p, Child(rb, p, dir), dir)

\* the while loop of SlabRedBlack::delete_fixup; yields the tree and the final x
delete_fixup_loop(rb, x) ==
    IF ~(x # rb.root /\ ~Red(rb, x)) THEN [rb |-> rb, x |-> x]
    ELSE
      LET p == Parent(rb, x)
          dir == IF x = Child(rb, p, 0) THEN 1 ELSE 0
          w == Child(rb, p, dir)
      IN IF Red(rb, w)
         THEN delete_fixup_black_sibling(
                  rotate(SetRed(SetRed(rb, w, FALSE), p, TRUE), p, Flip(dir)), p, dir)
         ELSE delete_fixup_sibling(rb, p, w, dir)

\* delete_fixup with its loop left out: x is blackened and nothing else
delete_fixup_blacken_only(rb, x) == SetRed(rb, x, FALSE)

\* delete_fixup: blacken x
delete_fixup_blacken(r) == SetRed(r.rb, r.x, FALSE)

\* SlabRedBlack::delete_fixup
delete_fixup(rb, x) == delete_fixup_blacken(delete_fixup_loop(rb, x))

\* search_ with the equality test of a node's key written as <=
RECURSIVE search_from_le(_, _, _)
search_from_le(rb, curr, key) ==
    IF curr = rb.nil_sentinel THEN None
    ELSE IF Key(rb, curr) <= key THEN Some(curr)
    ELSE LET direction == IF Key(rb, curr) < key THEN 1 ELSE 0
         IN search_from_le(rb, Child(rb, curr, direction), key)

\* SlabRedBlack::search_
RECURSIVE search_from(_, _, _)
search_from(rb, curr, key) ==
    IF curr = rb.nil_sentinel THEN None
    ELSE IF Key(rb, curr) = key THEN Some(curr)
    ELSE LET direction == IF Key(rb, curr) < key THEN 1 ELSE 0
         IN search_from(rb, Child(rb, curr, direction), key)

search_(rb, key) == search_from(rb, rb.root, key)

\* search: the key of the node search_ found
search_key(rb, found) == IF found.tag = "Some" THEN Some(Key(rb, found.val)) ELSE None

\* SlabRedBlack::search
search(rb, key) == search_key(rb, search_(rb, key))

\* the descent loop of SlabRedBlack::insert: the node under which z is attached
\* the descent of insert going left at a key equal to the new one
RECURSIVE insert_descend_le(_, _, _, _)
insert_descend_le(rb, z, y, x) ==
    IF x = rb.nil_sentinel THEN y
    ELSE LET dir == IF Key(rb, z) <= Key(rb, x) THEN 0 ELSE 1
         IN insert_descend_le(rb, z, x, Child(rb, x, dir))

RECURSIVE insert_descend(_, _, _, _)
insert_descend(rb, z, y, x) ==
    IF x = rb.nil_sentinel THEN y
    ELSE LET dir == IF Key(rb, z) < Key(rb, x) THEN 0 ELSE 1
         IN insert_descend(rb, z, x, Child(rb, x, dir))

\* insert hanging z on the left of y whatever its key
insert_attach_left(rb, z, y) ==
    IF y = rb.nil_sentinel
    THEN [rb EXCEPT !.root = z]
    ELSE SetChild(rb, y, 0, z)

\* insert: z becomes the root, or a child of y on the side its key asks for
insert_attach(rb, z, y) ==
    IF y = rb.nil_sentinel
    THEN [rb EXCEPT !.root = z]
    ELSE SetChild(rb, y, IF Key(rb, z) < Key(rb, y) THEN 0 ELSE 1, z)

\* insert: self.slab[z].red = true
insert_redden(rb, z) == SetRed(rb, z, TRUE)

\* insert, from the parent y the descent found
insert_under(rb, z, y) ==
    insert_fixup(insert_redden(insert_attach(SetParent(rb, z, y), z, y), z), z)

\* insert, from the fresh node z
insert_node(rb, z) == insert_under(rb, z, insert_descend(rb, z, rb.nil_sentinel, rb.root))

\* insert, from the slab's answer a
insert_at(rb, a) == insert_node([rb EXCEPT !.slab = a.slab], a.key)

\* SlabRedBlack::insert
insert(rb, key) == insert_at(rb, Slab_insert(rb.slab, Node_new(key, rb.nil_sentinel)))

\* delete: x takes y's place under y's parent, or as root
delete_relink(rb, yp, y, x) ==
    IF yp = rb.nil_sentinel
    THEN [rb EXCEPT !.root = x]
    ELSE SetChild(rb, yp, IF y = Child(rb, yp, 0) THEN 0 ELSE 1, x)

\* delete: fix up from x when the spliced-out node was black
delete_rebalance(rb, y, x) == IF ~Red(rb, y) THEN delete_fixup(rb, x) ELSE rb

\* delete copying y's key into z and leaving y in the slab
delete_free_keep(rb, z, y) ==
    IF y = rb.nil_sentinel \/ y = z THEN rb ELSE SetKey(rb, z, Key(rb, y))

\* delete freeing y's slot and leaving z's key as it was
delete_free_no_copy(rb, z, y) ==
    IF y = rb.nil_sentinel THEN rb
    ELSE [rb EXCEPT !.slab = Slab_remove(rb.slab, y)]

\* delete: y leaves the slab, and its key moves into z when y is not z
delete_free(rb, z, y) ==
    IF y = rb.nil_sentinel THEN rb
    ELSE IF y # z
         THEN SetKey([rb EXCEPT !.slab = Slab_remove(rb.slab, y)], z, Key(rb, y))
         ELSE [rb EXCEPT !.slab = Slab_remove(rb.slab, y)]

\* delete, from the node y that is spliced out
delete_splice(rb, z, y) ==
    LET x == Child(rb, y, IF Child(rb, y, 0) # rb.nil_sentinel THEN 0 ELSE 1)
        yp == Parent(rb, y)
    IN delete_free(
           delete_rebalance(delete_relink(SetParent(rb, x, yp), yp, y, x), y, x),
           z, y)

\* delete always splicing out the located node itself
delete_victim_self(rb, z) == z

\* delete: the node y that is spliced out for z
delete_victim(rb, z) ==
    IF Child(rb, z, 0) = rb.nil_sentinel \/ Child(rb, z, 1) = rb.nil_sentinel
    THEN z
    ELSE tree_successor(rb, z)

\* SlabRedBlack::delete, from the node z that search_ found
delete_found(rb, z) == delete_splice(rb, z, delete_victim(rb, z))

\* the descent of search_, keeping the last real node visited when the key is missing
RECURSIVE search_nearest(_, _, _, _)
search_nearest(rb, curr, prev, key) ==
    IF curr = rb.nil_sentinel THEN prev
    ELSE IF Key(rb, curr) = key THEN curr
    ELSE LET direction == IF Key(rb, curr) < key THEN 1 ELSE 0
         IN search_nearest(rb, Child(rb, curr, direction), curr, key)

\* delete going on with the node where the descent ended when the key is missing
delete_nearest(rb, key) ==
    IF search_nearest(rb, rb.root, rb.nil_sentinel, key) = rb.nil_sentinel
    THEN rb
    ELSE delete_found(rb, search_nearest(rb, rb.root, rb.nil_sentinel, key))

\* delete, from the answer of search_
delete_match(rb, found) ==
    IF found.tag = "None" THEN rb ELSE delete_found(rb, found.val)

\* SlabRedBlack::delete
delete(rb, key) == delete_match(rb, search_(rb, key))

\* what SlabRedBlack::delete hands back: its body has no return value
delete_result(rb, key) == Unit

(* ---------------------------------------------------------------------- *)
(* Direct-ownership backend: src/src/pointer.rs                            *)
(* A node's address is its position in heap; Box::new hands out the next   *)
(* unused address, and no address is ever given back.                      *)
(* ---------------------------------------------------------------------- *)

\* ptr::null_mut()
Ptr_NULL == 0

\* new_node_ptr: box a fresh node, yield the heap and the node's address
Ptr_new_node_ptr(heap, key, nil_sentinel) ==
    [heap |-> Append(heap, Node_new(key, nil_sentinel)), ptr |-> Len(heap) + 1]

\* field reads (*h).f
Ptr_Parent(rb, h) == rb.heap[h].parent

Ptr_Child(rb, h, dir) == rb.heap[h].children[dir]

Ptr_Key(rb, h) == rb.heap[h].key

Ptr_Red(rb, h) == rb.heap[h].red

\* field writes (*h).f = v
Ptr_SetParent(rb, h, v) == [rb EXCEPT !.heap[h].parent = v]

Ptr_SetChild(rb, h, dir, v) == [rb EXCEPT !.heap[h].children[dir] = v]

Ptr_SetKey(rb, h, v) == [rb EXCEPT !.heap[h].key = v]

Ptr_SetRed(rb, h, v) == [rb EXCEPT !.heap[h].red = v]

\* PointerRedBlack::new with Node::nil_sentinel; u is the sentinel's uninitialised key
PointerRedBlack_at(a) == [heap |-> a.heap, root |-> a.ptr, nil_sentinel |-> a.ptr]

PointerRedBlack_new(u) == PointerRedBlack_at(Ptr_new_node_ptr(<<>>, u, Ptr_NULL))

\* rotate: (*x).children[dir ^ 1] = (*y).children[dir]
Ptr_rotate_take(rb, x, dir, y) == Ptr_SetChild(rb, x, Flip(dir), Ptr_Child(rb, y, dir))

\* rotate: y's child on side dir, when real, gets x as parent
Ptr_rotate_adopt(rb, x, dir, y) ==
    IF Ptr_Child(rb, y, dir) # rb.nil_sentinel
    THEN Ptr_SetParent(rb, Ptr_Child(rb, y, dir), x)
    ELSE rb

\* rotate: (*y).parent = (*x).parent
Ptr_rotate_lift(rb, x, y) == Ptr_SetParent(rb, y, Ptr_Parent(rb, x))

\* rotate: y takes x's place under x's parent, or as root
Ptr_rotate_relink(rb, x, y) ==
    IF Ptr_Parent(rb, x) = rb.nil_sentinel
    THEN [rb EXCEPT !.root = y]
    ELSE Ptr_SetChild(rb, Ptr_Parent(rb, x),
                      IF Ptr_Child(rb, Ptr_Parent(rb, x), 0) = x THEN 0 ELSE 1, y)

\* PointerRedBlack::rotate
Ptr_rotate(rb, x, dir) ==
    LET y == Ptr_Child(rb, x, Flip(dir)) IN
    Ptr_SetParent(
        Ptr_SetChild(
            Ptr_rotate_relink(
                Ptr_rotate_lift(
                    Ptr_rotate_adopt(Ptr_rotate_take(rb, x, dir, y), x, dir, y),
                    x, y),
                x, y),
            y, dir, x),
        x, y)

\* PointerRedBlack::tree_minimum
RECURSIVE Ptr_tree_minimum(_, _)
Ptr_tree_minimum(rb, x) ==
    LET l == Ptr_Child(rb, x, 0) IN
    IF l # rb.nil_sentinel THEN Ptr_tree_minimum(rb, l) ELSE x

\* the loop of PointerRedBlack::tree_successor
RECURSIVE Ptr_tree_successor_climb(_, _, _)
Ptr_tree_successor_climb(rb, x, y) ==
    IF y # rb.nil_sentinel /\ x = Ptr_Child(rb, y, 1)
    THEN Ptr_tree_successor_climb(rb, y, Ptr_Parent(rb, y))
    ELSE y

\* PointerRedBlack::tree_successor
Ptr_tree_successor(rb, x) ==
    IF Ptr_Child(rb, x, 1) # rb.nil_sentinel
    THEN Ptr_tree_minimum(rb, x)
    ELSE Ptr_tree_successor_climb(rb, x, Ptr_Parent(rb, x))

\* (*(*x).parent).red = v
Ptr_SetParentRed(rb, x, v) == Ptr_SetRed(rb, Ptr_Parent(rb, x), v)

\* (*(*(*z).parent).parent).red = v
Ptr_SetGrandparentRed(rb, z, v) == Ptr_SetRed(rb, Ptr_Parent(rb, Ptr_Parent(rb, z)), v)

\* self.rotate((*x).parent, dir)
Ptr_rotate_parent(rb, x, dir) == Ptr_rotate(rb, Ptr_Parent(rb, x), dir)

\* self.rotate((*(*z).parent).parent, dir)
Ptr_rotate_grandparent(rb, z, dir) == Ptr_rotate(rb, Ptr_Parent(rb, Ptr_Parent(rb, z)), dir)

RECURSIVE Ptr_insert_fixup_loop(_, _)

\* insert_fixup, red uncle: z = (*(*z).parent).parent after the recolouring
Ptr_insert_fixup_up(rb, z) == Ptr_insert_fixup_loop(rb, Ptr_Parent(rb, Ptr_Parent(rb, z)))

\* insert_fixup, black uncle: recolour parent and grandparent, rotate the grandparent
Ptr_insert_fixup_straight(rb, z, dir) ==
    Ptr_insert_fixup_loop(
        Ptr_rotate_grandparent(
            Ptr_SetGrandparentRed(Ptr_SetParentRed(rb, z, FALSE), z, TRUE), z, dir),
        z)

\* the while loop of PointerRedBlack::insert_fixup
Ptr_insert_fixup_loop(rb, z) ==
    IF ~Ptr_Red(rb, Ptr_Parent(rb, z)) THEN rb
    ELSE
      LET zp == Ptr_Parent(rb, z)
          zpp == Ptr_Parent(rb, zp)
          dir == IF Ptr_Child(rb, zpp, 0) = zp THEN 1 ELSE 0
          y == Ptr_Child(rb, zpp, dir)
      IN IF Ptr_Red(rb, y)
         THEN Ptr_insert_fixup_up(
                  Ptr_SetGrandparentRed(
                      Ptr_SetRed(Ptr_SetParentRed(rb, z, FALSE), y, FALSE), z, TRUE),
                  z)
         ELSE IF z = Ptr_Child(rb, zp, dir)
              THEN Ptr_insert_fixup_straight(Ptr_rotate(rb, zp, Flip(dir)), zp, dir)
              ELSE Ptr_insert_fixup_straight(rb, z, dir)

\* insert_fixup: blacken the root
Ptr_insert_fixup_blacken(rb) == Ptr_SetRed(rb, rb.root, FALSE)

\* PointerRedBlack::insert_fixup
Ptr_insert_fixup(rb, z) == Ptr_insert_fixup_blacken(Ptr_insert_fixup_loop(rb, z))

RECURSIVE Ptr_delete_fixup_loop(_, _)

\* delete_fixup: x = self.root
Ptr_delete_fixup_at_root(rb) == Ptr_delete_fixup_loop(rb, rb.root)

\* delete_fixup: x = (*x).parent
Ptr_delete_fixup_up(rb, x) == Ptr_delete_fixup_loop(rb, Ptr_Parent(rb, x))

\* delete_fixup: (*w).red = (*(*x).parent).red
Ptr_delete_fixup_copy_red(rb, x, w) == Ptr_SetRed(rb, w, Ptr_Red(rb, Ptr_Parent(rb, x)))

\* delete_fixup, far child of w red: recolour, rotate x's parent, x = root
Ptr_delete_fixup_far_red(rb, x, w, wc, dir) ==
    Ptr_delete_fixup_at_root(
        Ptr_rotate_parent(
            Ptr_SetRed(Ptr_SetParentRed(Ptr_delete_fixup_copy_red(rb, x, w), x, FALSE),
                       wc, FALSE),
            x, Flip(dir)))

\* delete_fixup: w and wc are recomputed after the rotation of w
Ptr_delete_fixup_near_red(rb, x, dir) ==
    LET w == Ptr_Child(rb, Ptr_Parent(rb, x), dir)
    IN Ptr_delete_fixup_far_red(rb, x, w, Ptr_Child(rb, w, dir), dir)

\* delete_fixup, from the black sibling w on
Ptr_delete_fixup_sibling(rb, x, w, dir) ==
    IF ~Ptr_Red(rb, Ptr_Child(rb, w, 0)) /\ ~Ptr_Red(rb, Ptr_Child(rb, w, 1))
    THEN Ptr_delete_fixup_up(Ptr_SetRed(rb, w, TRUE), x)
    ELSE LET wc == Ptr_Child(rb, w, dir)
             wo == Ptr_Child(rb, w, Flip(dir))
         IN IF ~Ptr_Red(rb, wc)
            THEN Ptr_delete_fixup_near_red(
                     Ptr_rotate(Ptr_SetRed(Ptr_SetRed(rb, wo, FALSE), w, TRUE), w, dir),
                     x, dir)
            ELSE Ptr_delete_fixup_far_red(rb, x, w, wc, dir)

\* delete_fixup: w is recomputed after the rotation of x's parent
Ptr_delete_fixup_black_sibling(rb, x, dir) ==
    Ptr_delete_fixup_sibling(rb, x, Ptr_Child(rb, Ptr_Parent(rb, x), dir), dir)

\* the while loop of PointerRedBlack::delete_fixup; yields the tree and the final x
Ptr_delete_fixup_loop(rb, x) ==
    IF ~(x # rb.root /\ ~Ptr_Red(rb, x)) THEN [rb |-> rb, x |-> x]
    ELSE
      LET dir == IF x = Ptr_Child(rb, Ptr_Parent(rb, x), 0) THEN 1 ELSE 0
          w == Ptr_Child(rb, Ptr_Parent(rb, x), dir)
      IN IF Ptr_Red(rb, w)
         THEN Ptr_delete_fixup_black_sibling(
                  Ptr_rotate_parent(
                      Ptr_SetParentRed(Ptr_SetRed(rb, w, FALSE), x, TRUE), x, Flip(dir)),
                  x, dir)
         ELSE Ptr_delete_fixup_sibling(rb, x, w, dir)

\* PointerRedBlack::delete_fixup with its loop left out
Ptr_delete_fixup_blacken_only(rb, x) == Ptr_SetRed(rb, x, FALSE)

\* delete_fixup: blacken x
Ptr_delete_fixup_blacken(r) == Ptr_SetRed(r.rb, r.x, FALSE)

\* PointerRedBlack::delete_fixup
Ptr_delete_fixup(rb, x) == Ptr_delete_fixup_blacken(Ptr_delete_fixup_loop(rb, x))

\* PointerRedBlack::search_
RECURSIVE Ptr_search_from(_, _, _)
Ptr_search_from(rb, curr, key) ==
    IF curr = rb.nil_sentinel THEN None
    ELSE IF Ptr_Key(rb, curr) = key THEN Some(curr)
    ELSE LET direction == IF Ptr_Key(rb, curr) < key THEN 1 ELSE 0
         IN Ptr_search_from(rb, Ptr_Child(rb, curr, direction), key)

Ptr_search_(rb, key) == Ptr_search_from(rb, rb.root, key)

\* search: the key of the node search_ found
Ptr_search_key(rb, found) ==
    IF found.tag = "Some" THEN Some(Ptr_Key(rb, found.val)) ELSE None

\* PointerRedBlack::search
Ptr_search(rb, key) == Ptr_search_key(rb, Ptr_search_(rb, key))

\* the descent loop of PointerRedBlack::insert
RECURSIVE Ptr_insert_descend(_, _, _, _)
Ptr_insert_descend(rb, z, y, x) ==
    IF x = rb.nil_sentinel THEN y
    ELSE LET dir == IF Ptr_Key(rb, z) < Ptr_Key(rb, x) THEN 0 ELSE 1
         IN Ptr_insert_descend(rb, z, x, Ptr_Child(rb, x, dir))

\* insert: z becomes the root, or a child of y on the side its key asks for
Ptr_insert_attach(rb, z, y) ==
    IF y = rb.nil_sentinel
    THEN [rb EXCEPT !.root = z]
    ELSE Ptr_SetChild(rb, y, IF Ptr_Key(rb, z) < Ptr_Key(rb, y) THEN 0 ELSE 1, z)

\* insert, from the parent y the descent found
Ptr_insert_under(rb, z, y) ==
    Ptr_insert_fixup(
        Ptr_SetRed(Ptr_insert_attach(Ptr_SetParent(rb, z, y), z, y), z, TRUE), z)

\* insert, from the fresh node z
Ptr_insert_node(rb, z) ==
    Ptr_insert_under(rb, z, Ptr_insert_descend(rb, z, rb.nil_sentinel, rb.root))

\* insert, from the boxed node a
Ptr_insert_at(rb, a) == Ptr_insert_node([rb EXCEPT !.heap = a.heap], a.ptr)

\* PointerRedBlack::insert
Ptr_insert(rb, key) == Ptr_insert_at(rb, Ptr_new_node_ptr(rb.heap, key, rb.nil_sentinel))

\* delete: x takes y's place under y's parent, or as root
Ptr_delete_relink(rb, yp, y, x) ==
    IF yp = rb.nil_sentinel
    THEN [rb EXCEPT !.root = x]
    ELSE Ptr_SetChild(rb, yp, IF y = Ptr_Child(rb, yp, 0) THEN 0 ELSE 1, x)

\* delete: the keys of z and y are swapped when y is not z
Ptr_delete_swap(rb, z, y) ==
    IF y # z
    THEN Ptr_SetKey(Ptr_SetKey(rb, z, Ptr_Key(rb, y)), y, Ptr_Key(rb, z))
    ELSE rb

\* delete: fix up from x when the spliced-out node was black
Ptr_delete_rebalance(rb, y, x) == IF ~Ptr_Red(rb, y) THEN Ptr_delete_fixup(rb, x) ELSE rb

\* delete, from the node y that is spliced out
Ptr_delete_splice(rb, z, y) ==
    LET x == Ptr_Child(rb, y, IF Ptr_Child(rb, y, 0) # rb.nil_sentinel THEN 0 ELSE 1)
        yp == Ptr_Parent(rb, y)
    IN Ptr_delete_rebalance(
           Ptr_delete_swap(Ptr_delete_relink(Ptr_SetParent(rb, x, yp), yp, y, x), z, y),
           y, x)

\* delete: the node y that is spliced out for z
Ptr_delete_victim(rb, z) ==
    IF Ptr_Child(rb, z, 0) = rb.nil_sentinel \/ Ptr_Child(rb, z, 1) = rb.nil_sentinel
    THEN z
    ELSE Ptr_tree_successor(rb, z)

\* PointerRedBlack::delete, from the node z that search_ found
Ptr_delete_found(rb, z) == Ptr_delete_splice(rb, z, Ptr_delete_victim(rb, z))

\* delete, from the answer of search_
Ptr_delete_match(rb, found) ==
    IF found.tag = "None" THEN rb ELSE Ptr_delete_found(rb, found.val)

\* PointerRedBlack::delete
Ptr_delete(rb, key) == Ptr_delete_match(rb, Ptr_search_(rb, key))

\* what PointerRedBlack::delete hands back: its body has no return value
Ptr_delete_result(rb, key) == Unit

(* ---------------------------------------------------------------------- *)
(* State and calls                                                         *)
(* ---------------------------------------------------------------------- *)

VARIABLES
    rb,     \* the SlabRedBlack value
    prb,    \* the PointerRedBlack value together with the heap its nodes live in
    last,   \* in a recorded run, the call that returned last: its name, its key,
            \* whether search_ found the key when the call started, and what each
            \* backend handed back
    hist    \* in a recorded run, per key: the insert calls and delete calls so far

vars == <<rb, prb, last, hist>>

\* number of real nodes the arena holds
LiveNodes == Cardinality({i \in 1 .. Slab_len(rb.slab) : rb.slab.entries[i].occupied}) - 1

\* a delete has removed a node of the arena tree: a slot is vacant
SomeSlotFreed == \E i \in 1 .. Slab_len(rb.slab) : ~rb.slab.entries[i].occupied

\* the PointerRedBlack literal of PointerRedBlack::new, before its sentinel is boxed
PointerRedBlack_unbuilt == [heap |-> <<>>, root |-> Ptr_NULL, nil_sentinel |-> Ptr_NULL]

NoCall == [op |-> "new", key |-> 0, hit |-> FALSE, ret |-> Unit, ptr_ret |-> Unit]

NoHist == [k \in Keys |-> [ins |-> 0, del |-> 0]]

\* the sentinel's key is fixed but arbitrary here; RunSpec enumerates it
Init ==
    /\ rb = SlabRedBlack_new(CHOOSE u \in UninitKeys : TRUE)
    /\ prb = PointerRedBlack_unbuilt
    /\ last = NoCall
    /\ hist = NoHist

\* a call of SlabRedBlack::insert
Insert(k) ==
    /\ LiveNodes < MaxNodes
    /\ rb' = insert(rb, k)
    /\ UNCHANGED <<prb, last, hist>>

\* a call of SlabRedBlack::delete
Delete(k) ==
    /\ rb' = delete(rb, k)
    /\ UNCHANGED <<prb, last, hist>>

Next ==
    \/ \E k \in Keys : Insert(k)
    \/ \E k \in Keys : Delete(k)

\* the arena backend under any sequence of insert and delete calls
Spec == Init /\ [][Next]_vars

\* a call of SlabRedBlack::insert in a deep run
DeepInsert(k) ==
    /\ LiveNodes < DeepMaxNodes
    /\ rb' = insert(rb, k)
    /\ UNCHANGED <<prb, last, hist>>

\* a call of SlabRedBlack::delete in a deep run
DeepDelete(k) ==
    /\ rb' = delete(rb, k)
    /\ UNCHANGED <<prb, last, hist>>

DeepNext ==
    \/ \E k \in DeepKeys : DeepInsert(k)
    \/ \E k \in DeepKeys : DeepDelete(k)

\* the arena backend under any sequence of insert and delete calls over few
\* keys, with trees tall enough for every case of the two fixups
DeepSpec == Init /\ [][DeepNext]_vars

\* a call of SlabRedBlack::insert in a tall run: the keys come in ascending
\* order, and all of them before the first delete
TallInsert(k) ==
    /\ k = LiveNodes + 1
    /\ ~SomeSlotFreed
    /\ rb' = insert(rb, k)
    /\ UNCHANGED <<prb, last, hist>>

\* a call of SlabRedBlack::delete in a tall run
TallDelete(k) ==
    /\ LiveNodes > TallMinNodes
    /\ rb' = delete(rb, k)
    /\ UNCHANGED <<prb, last, hist>>

TallNext ==
    \/ \E k \in TallKeys : TallInsert(k)
    \/ \E k \in TallKeys : TallDelete(k)

\* the arena backend under insert calls of 1, 2, ... up to TallMaxKey followed
\* by delete calls in any order down to TallMinNodes nodes: trees tall enough
\* for a fixup to go round its loop more than once
TallSpec == Init /\ [][TallNext]_vars

RECURSIVE CallsUpTo(_)
CallsUpTo(k) == IF k = 0 THEN 0 ELSE hist[k].ins + hist[k].del + CallsUpTo(k - 1)

\* number of insert and delete calls so far in a recorded run
Calls == CallsUpTo(MaxKey)

\* both sentinels are built over uninitialised keys; no claim relates the two
\* values, so one draw serves both
RunInit ==
    /\ \E u \in UninitKeys : rb = SlabRedBlack_new(u) /\ prb = PointerRedBlack_new(u)
    /\ last = NoCall
    /\ hist = NoHist

\* the same insert call on both backends
RunInsert(k) ==
    /\ Calls < MaxCalls
    /\ rb' = insert(rb, k)
    /\ prb' = Ptr_insert(prb, k)
    /\ last' = [op |-> "insert", key |-> k, hit |-> search_(rb, k).tag = "Some",
                ret |-> Unit, ptr_ret |-> Unit]
    /\ hist' = [hist EXCEPT ![k].ins = @ + 1]

\* the same delete call on both backends
RunDelete(k) ==
    /\ Calls < MaxCalls
    /\ rb' = delete(rb, k)
    /\ prb' = Ptr_delete(prb, k)
    /\ last' = [op |-> "delete", key |-> k, hit |-> search_(rb, k).tag = "Some",
                ret |-> delete_result(rb, k), ptr_ret |-> Ptr_delete_result(prb, k)]
    /\ hist' = [hist EXCEPT ![k].del = @ + 1]

\* the same search call on both backends
RunSearch(k) ==
    /\ last' = [op |-> "search", key |-> k, hit |-> search_(rb, k).tag = "Some",
                ret |-> search(rb, k), ptr_ret |-> Ptr_search(prb, k)]
    /\ UNCHANGED <<rb, prb, hist>>

RunNext ==
    \/ \E k \in Keys : RunInsert(k)
    \/ \E k \in Keys : RunDelete(k)
    \/ \E k \in Keys : RunSearch(k)

\* a recorded run of at most MaxCalls insert and delete calls, made on both backends
RunSpec == RunInit /\ [][RunNext]_vars

(* ---------------------------------------------------------------------- *)
(* Reading a tree: the vocabulary of the properties                        *)
(* ---------------------------------------------------------------------- *)

\* the handles on the paths of at most fuel links below h, h included
RECURSIVE Below(_, _, _)
Below(t, h, fuel) ==
    IF h = t.nil_sentinel \/ fuel = 0 THEN {}
    ELSE {h} \cup Below(t, Child(t, h, 0), fuel - 1) \cup Below(t, Child(t, h, 1), fuel - 1)

\* the real nodes reachable from the root of the arena tree
Reachable == Below(rb, rb.root, Slab_len(rb.slab))

\* the keys of the subtree of h, left subtree first, then h, then the right subtree
RECURSIVE InOrder(_, _, _)
InOrder(t, h, fuel) ==
    IF h = t.nil_sentinel \/ fuel = 0 THEN <<>>
    ELSE InOrder(t, Child(t, h, 0), fuel - 1) \o <<Key(t, h)>>
         \o InOrder(t, Child(t, h, 1), fuel - 1)

InOrderKeys(t) == InOrder(t, t.root, Slab_len(t.slab))

\* the numbers of black real nodes met on the downward paths from h to the sentinel
RECURSIVE BlackCounts(_, _, _)
BlackCounts(t, h, fuel) ==
    IF h = t.nil_sentinel \/ fuel = 0 THEN {0}
    ELSE LET below == BlackCounts(t, Child(t, h, 0), fuel - 1)
                      \cup BlackCounts(t, Child(t, h, 1), fuel - 1)
             own == IF Red(t, h) THEN 0 ELSE 1
         IN {c + own : c \in below}

\* the bag of the keys a sequence holds
RECURSIVE BagOfSeq(_)
BagOfSeq(q) == IF q = <<>> THEN EmptyBag ELSE SetToBag({Head(q)}) (+) BagOfSeq(Tail(q))

\* the bag of the keys stored in the arena tree
KeyBag(t) == BagOfSeq(InOrderKeys(t))

\* shape, keys and colours of the subtree of h, without its handles
RECURSIVE Shape(_, _, _)
Shape(t, h, fuel) ==
    IF h = t.nil_sentinel \/ fuel = 0 THEN <<>>
    ELSE <<Key(t, h), Red(t, h),
           Shape(t, Child(t, h, 0), fuel - 1), Shape(t, Child(t, h, 1), fuel - 1)>>

\* the same readings of the direct-ownership tree
RECURSIVE Ptr_Below(_, _, _)
Ptr_Below(t, h, fuel) ==
    IF h = t.nil_sentinel \/ fuel = 0 THEN {}
    ELSE {h} \cup Ptr_Below(t, Ptr_Child(t, h, 0), fuel - 1)
             \cup Ptr_Below(t, Ptr_Child(t, h, 1), fuel - 1)

Ptr_Reachable == Ptr_Below(prb, prb.root, Len(prb.heap))

RECURSIVE Ptr_InOrder(_, _, _)
Ptr_InOrder(t, h, fuel) ==
    IF h = t.nil_sentinel \/ fuel = 0 THEN <<>>
    ELSE Ptr_InOrder(t, Ptr_Child(t, h, 0), fuel - 1) \o <<Ptr_Key(t, h)>>
         \o Ptr_InOrder(t, Ptr_Child(t, h, 1), fuel - 1)

Ptr_InOrderKeys(t) == Ptr_InOrder(t, t.root, Len(t.heap))

RECURSIVE Ptr_Shape(_, _, _)
Ptr_Shape(t, h, fuel) ==
    IF h = t.nil_sentinel \/ fuel = 0 THEN <<>>
    ELSE <<Ptr_Key(t, h), Ptr_Red(t, h),
           Ptr_Shape(t, Ptr_Child(t, h, 0), fuel - 1),
           Ptr_Shape(t, Ptr_Child(t, h, 1), fuel - 1)>>

\* the real nodes of an arena tree t
Nodes(t) == Below(t, t.root, Slab_len(t.slab))

\* the validator's three conditions on an arena tree t
RootBlack(t) == ~Red(t, t.root)

NoRedRed(t) ==
    \A n \in Nodes(t) : Red(t, n) => ~Red(t, Child(t, n, 0)) /\ ~Red(t, Child(t, n, 1))

BlackHeightUniform(t) ==
    \A n \in Nodes(t) : Cardinality(BlackCounts(t, n, Slab_len(t.slab))) = 1

\* whether some node of the arena tree t holds key k
Holds(t, k) == \E n \in Nodes(t) : Key(t, n) = k

\* the root of an arena tree t and the parent and child links of its real nodes
Links(t) ==
    [root |-> t.root,
     link |-> [n \in Nodes(t) |->
                  [parent |-> Parent(t, n), children |-> t.slab.entries[n + 1].node.children]]]

\* the number of real nodes on the longest downward path from h
RECURSIVE Height(_, _, _)
Height(t, h, fuel) ==
    IF h = t.nil_sentinel \/ fuel = 0 THEN 0
    ELSE LET l == Height(t, Child(t, h, 0), fuel - 1)
             r == Height(t, Child(t, h, 1), fuel - 1)
         IN 1 + IF l >= r THEN l ELSE r

(* ---------------------------------------------------------------------- *)
(* Claims                                                                  *)
(* ---------------------------------------------------------------------- *)

C2_BlackHeightUniform ==
    \A n \in Reachable : Cardinality(BlackCounts(rb, n, Slab_len(rb.slab))) = 1

\* C2 witness: after some delete, a tree whose paths all hold two black nodes
C2_Witness ==
    /\ SomeSlotFreed
    /\ BlackCounts(rb, rb.root, Slab_len(rb.slab)) = {2}
    /\ Cardinality(Reachable) >= 3

\* whether a sequence of keys is in non-decreasing order
NonDecreasing(q) == \A i \in 1 .. Len(q) - 1 : q[i] <= q[i + 1]

\* C5: after any sequence of insert and delete calls, the keys of the
\* reachable nodes read in in-order are in non-decreasing order.
C5_InOrderSorted == NonDecreasing(InOrderKeys(rb))

\* C3: after every insert and every delete call returns, the node designated
\* as root is black, in both backends.
C3_RootBlack == ~Red(rb, rb.root) /\ ~Ptr_Red(prb, prb.root)

\* C3 witness: a delete that removed the last node, so the sentinel is the root
C3_Witness ==
    /\ last.op = "delete"
    /\ last.hit
    /\ rb.root = rb.nil_sentinel
    /\ prb.root = prb.nil_sentinel

\* C4: every key inserted more times than delete was called on it is returned
\* by search.
C4_InsertedKeysFound ==
    \A k \in Keys :
        hist[k].ins > hist[k].del =>
            search(rb, k) = Some(k) /\ Ptr_search(prb, k) = Some(k)

\* C6: a search call returns absent when no reachable node holds the key, any
\* key it returns equals the key asked for, and the node it read the key from
\* is a reachable real node, never the sentinel.
C6_SearchSound ==
    last.op = "search" =>
        /\ (\A n \in Reachable : Key(rb, n) # last.key) => last.ret = None
        /\ last.ret.tag = "Some" =>
              /\ last.ret.val = last.key
              /\ search_(rb, last.key).val \in Reachable
        /\ (\A n \in Ptr_Reachable : Ptr_Key(prb, n) # last.key) => last.ptr_ret = None
        /\ last.ptr_ret.tag = "Some" =>
              /\ last.ptr_ret.val = last.key
              /\ Ptr_search_(prb, last.key).val \in Ptr_Reachable

\* C6 witness: a key that was inserted and deleted again is searched in a
\* non-empty tree whose sentinel happens to hold that very key, and is absent
C6_Witness ==
    /\ last.op = "search"
    /\ last.ret = None
    /\ last.ptr_ret = None
    /\ hist[last.key].ins > 0
    /\ rb.root # rb.nil_sentinel
    /\ Key(rb, rb.nil_sentinel) = last.key

\* C7: in every reachable state, a delete of a key that some node of the tree
\* holds removes exactly one copy of that key and nothing else, and the node
\* count drops by one.
C7_DeleteRemovesOneCopy ==
    \A k \in Keys :
        (\E n \in Reachable : Key(rb, n) = k) =>
            /\ KeyBag(delete(rb, k)) = KeyBag(rb) (-) SetToBag({k})
            /\ Len(InOrderKeys(delete(rb, k))) = Len(InOrderKeys(rb)) - 1

\* C8: a delete of a key that search does not find changes nothing: the whole
\* tree value (root, every slot or boxed node, the sentinel, the free list) is
\* the same before and after the call.
C8_DeleteAbsentNoOp ==
    [][\A k \in Keys :
          RunDelete(k) =>
              /\ search(rb, k) = None => rb' = rb
              /\ Ptr_search(prb, k) = None => prb' = prb]_vars

\* C8 witness: the second of two deletes of a key that is not in the
\* non-empty tree
C8_Witness ==
    /\ last.op = "delete"
    /\ ~last.hit
    /\ hist[last.key].del >= 2
    /\ rb.root # rb.nil_sentinel

\* C9: a delete call hands back the removed key when it removed a node and
\* absent when it found none.
C9_DeleteReturnsKey ==
    last.op = "delete" =>
        /\ last.ret = IF last.hit THEN Some(last.key) ELSE None
        /\ last.ptr_ret = IF last.hit THEN Some(last.key) ELSE None

\* C10: after every call of a sequence of insert and delete calls made on both
\* backends, the two trees have the same shape, with the same key and colour
\* at every position.
C10_SameTree ==
    Shape(rb, rb.root, Slab_len(rb.slab)) = Ptr_Shape(prb, prb.root, Len(prb.heap))

\* C10 witness: a delete has removed a node and left at least three, while
\* the direct-ownership heap still holds the node it spliced out
C10_Witness ==
    /\ last.op = "delete"
    /\ last.hit
    /\ Cardinality(Reachable) >= 3
    /\ Len(prb.heap) > Cardinality(Ptr_Reachable) + 1

\* C11: from any reachable tree and any key k it does not hold, insert(k)
\* followed at once by delete(k) leaves search(k) absent, the root black, no
\* red node with a red child and the black counts uniform; one more delete(k)
\* changes nothing.
C11_InsertThenDelete ==
    \A k \in Keys :
        (~Holds(rb, k) /\ LiveNodes < MaxNodes) =>
            LET t == delete(insert(rb, k), k)
            IN /\ search(t, k) = None
               /\ RootBlack(t)
               /\ NoRedRed(t)
               /\ BlackHeightUniform(t)
               /\ delete(t, k) = t

\* C11 witness: a tree of at least three nodes in which an absent key, once
\* inserted, is found and deleted again, and the round trip reshapes the tree
C11_Witness ==
    \E k \in Keys :
        /\ ~Holds(rb, k)
        /\ LiveNodes < MaxNodes
        /\ Cardinality(Reachable) >= 3
        /\ search(insert(rb, k), k) = Some(k)
        /\ Cardinality(Nodes(delete(insert(rb, k), k))) = Cardinality(Reachable)
        /\ Shape(delete(insert(rb, k), k), delete(insert(rb, k), k).root, Slab_len(rb.slab) + 1)
              # Shape(rb, rb.root, Slab_len(rb.slab))

\* C12: for every node x of a reachable tree whose child y on side 1 - dir
\* is a real node, rotate(x, dir) followed by rotate(y, 1 - dir) gives back
\* the root and every node's parent and child links as they were.
C12_RotateInverse ==
    \A x \in Reachable : \A dir \in Dirs :
        Child(rb, x, Flip(dir)) # rb.nil_sentinel =>
            Links(rotate(rotate(rb, x, dir), Child(rb, x, Flip(dir)), Flip(dir))) = Links(rb)

\* C12 witness: a node rotated left whose right child has a real left child
\* to hand over, and a node below the root with a real left child to rotate
\* right
C12_Witness ==
    /\ \E x \in Reachable :
          /\ Child(rb, x, 1) # rb.nil_sentinel
          /\ Child(rb, Child(rb, x, 1), 0) # rb.nil_sentinel
          /\ Links(rotate(rb, x, 0)) # Links(rb)
    /\ \E x \in Reachable :
          /\ Parent(rb, x) # rb.nil_sentinel
          /\ Child(rb, x, 0) # rb.nil_sentinel

\* C13: after any sequence of insert and delete calls that leaves n real
\* nodes, the height h of the tree satisfies 2^h <= (n + 1)^2.
C13_HeightBound ==
    2 ^ Height(rb, rb.root, Slab_len(rb.slab))
        <= (Cardinality(Reachable) + 1) * (Cardinality(Reachable) + 1)

\* C13 witness: six nodes, four of them on one path
C13_Witness ==
    /\ Cardinality(Reachable) = 6
    /\ Height(rb, rb.root, Slab_len(rb.slab)) = 4

\* the trees insert_fixup passes through, one after each statement of its loop
\* that writes a colour or rotates, ending with the blackened root
RECURSIVE insert_fixup_trace(_, _, _)
insert_fixup_trace(t, z, p0) ==
    IF ~Red(t, p0) THEN <<t, SetRed(t, t.root, FALSE)>>
    ELSE LET p == Parent(t, z)
             pp == Parent(t, p)
             dir == IF Child(t, pp, 0) = p THEN 1 ELSE 0
             y == Child(t, pp, dir)
         IN IF Red(t, y)
            THEN LET s1 == SetRed(t, p, FALSE)
                     s2 == SetRed(s1, y, FALSE)
                     s3 == SetRed(s2, pp, TRUE)
                 IN <<t, s1, s2>> \o insert_fixup_trace(s3, pp, Parent(s3, pp))
            ELSE LET bent == z = Child(t, p, dir)
                     r1 == IF bent THEN rotate(t, p, Flip(dir)) ELSE t
                     z1 == IF bent THEN p ELSE z
                     p1 == IF bent THEN Parent(r1, z1) ELSE p
                     pp1 == IF bent THEN Parent(r1, p1) ELSE pp
                     s1 == SetRed(r1, p1, FALSE)
                     s2 == SetRed(s1, pp1, TRUE)
                     s3 == rotate(s2, pp1, dir)
                 IN <<t, r1, s1, s2>> \o insert_fixup_trace(s3, z1, p1)

\* the trees delete_fixup passes through, one after each statement of its loop
\* that writes a colour or rotates, ending with the blackened x
RECURSIVE delete_fixup_trace(_, _)
delete_fixup_trace(t, x) ==
    IF x = t.root \/ Red(t, x) THEN <<t, SetRed(t, x, FALSE)>>
    ELSE LET p == Parent(t, x)
             dir == IF x = Child(t, p, 0) THEN 1 ELSE 0
             w0 == Child(t, p, dir)
             a1 == IF Red(t, w0) THEN SetRed(t, w0, FALSE) ELSE t
             a2 == IF Red(t, w0) THEN SetRed(a1, p, TRUE) ELSE t
             a3 == IF Red(t, w0) THEN rotate(a2, p, Flip(dir)) ELSE t
             w == Child(a3, p, dir)
             wl == Child(a3, w, 0)
             wr == Child(a3, w, 1)
         IN IF ~Red(a3, wl) /\ ~Red(a3, wr)
            THEN <<t, a1, a2, a3>> \o delete_fixup_trace(delete_fixup_redden(a3, p, dir), p)
            ELSE LET wo == Child(a3, w, Flip(dir))
                     near == ~Red(a3, Child(a3, w, dir))
                     b1 == IF near THEN SetRed(a3, wo, FALSE) ELSE a3
                     b2 == IF near THEN SetRed(b1, w, TRUE) ELSE a3
                     b3 == IF near THEN rotate(b2, w, dir) ELSE a3
                     w2 == Child(b3, p, dir)
                     wc == Child(b3, w2, dir)
                     c1 == SetRed(b3, w2, Red(b3, p))
                     c2 == SetRed(c1, p, FALSE)
                     c3 == SetRed(c2, wc, FALSE)
                     c4 == rotate(c3, p, Flip(dir))
                 IN <<t, a1, a2, a3, b1, b2, b3, c1, c2, c3>>
                        \o delete_fixup_trace(c4, c4.root)

\* the trees SlabRedBlack::insert passes through, statement by statement
insert_trace(t, key) ==
    LET a == Slab_insert(t.slab, Node_new(key, t.nil_sentinel))
        t0 == [t EXCEPT !.slab = a.slab]
        z == a.key
        y == insert_descend(t0, z, t0.nil_sentinel, t0.root)
        s1 == SetParent(t0, z, y)
        s2 == insert_attach(s1, z, y)
        s3 == insert_redden(s2, z)
    IN <<t, t0, s1, s2>> \o insert_fixup_trace(s3, z, Parent(s3, z))

\* the trees SlabRedBlack::delete passes through, statement by statement
delete_trace(t, key) ==
    IF search_(t, key).tag = "None" THEN <<t>>
    ELSE LET z == search_(t, key).val
             y == delete_victim(t, z)
             x == Child(t, y, IF Child(t, y, 0) # t.nil_sentinel THEN 0 ELSE 1)
             yp == Parent(t, y)
             s1 == SetParent(t, x, yp)
             s2 == delete_relink(s1, yp, y, x)
             fix == IF ~Red(s2, y) THEN delete_fixup_trace(s2, x) ELSE <<s2>>
         IN <<t, s1>> \o fix \o <<delete_free(fix[Len(fix)], z, y)>>

\* the traces end in the trees that insert and delete return
TracesAgree ==
    \A k \in DeepKeys :
        /\ LiveNodes < DeepMaxNodes =>
               insert_trace(rb, k)[Len(insert_trace(rb, k))] = insert(rb, k)
        /\ delete_trace(rb, k)[Len(delete_trace(rb, k))] = delete(rb, k)

\* the sentinel is black in every tree of the sequence tr
SentinelBlackIn(tr) == \A i \in DOMAIN tr : ~Red(tr[i], tr[i].nil_sentinel)

\* C14: the sentinel is black in every state: in every state between calls,
\* and in every intermediate state inside an insert or a delete, fix-up
\* recolourings included
C14_SentinelBlack ==
    /\ ~Red(rb, rb.nil_sentinel)
    /\ \A k \in DeepKeys :
           /\ LiveNodes < DeepMaxNodes => SentinelBlackIn(insert_trace(rb, k))
           /\ SentinelBlackIn(delete_trace(rb, k))

\* a delete is due whose spliced-out node is a black leaf with a red sibling:
\* its fix-up runs with the sentinel as x, recolours, rotates and goes round again
C14_Witness ==
    \E k \in DeepKeys :
        /\ search_(rb, k).tag = "Some"
        /\ LET y == delete_victim(rb, search_(rb, k).val)
               p == Parent(rb, y)
           IN /\ Child(rb, y, 0) = rb.nil_sentinel
              /\ Child(rb, y, 1) = rb.nil_sentinel
              /\ ~Red(rb, y)
              /\ p # rb.nil_sentinel
              /\ Red(rb, Child(rb, p, IF y = Child(rb, p, 0) THEN 1 ELSE 0))
        /\ Len(delete_trace(rb, k)) >= 9

\* C15: after insert calls only, in any order and with duplicates, search(k)
\* returns k for every inserted key k, on both backends, and the validator's
\* conditions hold: the root is black, no red node has a red child, and every
\* path from the root down to the sentinel passes the same number of black nodes
C15_InsertOnly ==
    (\A k \in Keys : hist[k].del = 0) =>
        /\ \A k \in Keys :
               hist[k].ins > 0 =>
                   /\ search(rb, k) = Some(k)
                   /\ Ptr_search(prb, k) = Some(k)
        /\ RootBlack(rb)
        /\ NoRedRed(rb)
        /\ BlackHeightUniform(rb)
        /\ Shape(rb, rb.root, Slab_len(rb.slab)) = Ptr_Shape(prb, prb.root, Len(prb.heap))

\* MaxCalls inserts and no delete, every key inserted and one of them twice
C15_Witness ==
    /\ \A k \in Keys : hist[k].del = 0 /\ hist[k].ins > 0
    /\ \E k \in Keys : hist[k].ins >= 2
    /\ Calls = MaxCalls
    /\ Cardinality(Reachable) = MaxCalls

\* C16: in delete, when the located node z has two real children, the node y
\* chosen to be spliced out is the leftmost node of z's right subtree, and the
\* key z holds afterwards is the smallest key of z's right subtree
C16_VictimIsSuccessor ==
    \A k \in Keys :
        search_(rb, k).tag = "Some" =>
            LET z == search_(rb, k).val
            IN (Child(rb, z, 0) # rb.nil_sentinel /\ Child(rb, z, 1) # rb.nil_sentinel) =>
                   /\ delete_victim(rb, z) = tree_minimum(rb, Child(rb, z, 1))
                   /\ Key(delete(rb, k), z) = Key(rb, tree_minimum(rb, Child(rb, z, 1)))

\* C17: in every delete of a found key, the node y that is spliced out is a
\* real node, never the sentinel, and has at most one real child when it is
\* spliced out
C17_VictimHasOneChild ==
    \A k \in Keys :
        search_(rb, k).tag = "Some" =>
            LET y == delete_victim(rb, search_(rb, k).val)
            IN /\ y # rb.nil_sentinel
               /\ y \in Reachable
               /\ Child(rb, y, 0) = rb.nil_sentinel \/ Child(rb, y, 1) = rb.nil_sentinel

\* a delete is due whose located node has two real children, so that another
\* node is spliced out, and that node has a real child of its own
C17_Witness ==
    \E k \in Keys :
        /\ search_(rb, k).tag = "Some"
        /\ LET z == search_(rb, k).val
               y == delete_victim(rb, z)
           IN /\ Child(rb, z, 0) # rb.nil_sentinel
              /\ Child(rb, z, 1) # rb.nil_sentinel
              /\ y # z
              /\ Child(rb, y, 1) # rb.nil_sentinel

\* slot h of the arena of tree t holds a node
SlotOccupied(t, h) == t.slab.entries[h + 1].occupied

\* the fields of node h of arena tree t other than its key
LinksAndColour(t, h) == <<Parent(t, h), Child(t, h, 0), Child(t, h, 1), Red(t, h)>>

\* the arena tree as delete(key) has it just before y leaves the slab
delete_before_free(t, key) == delete_trace(t, key)[Len(delete_trace(t, key)) - 1]

\* C18 as stated: in delete, when the spliced node y differs from the located
\* node z, z keeps its handle, position, colour and links and ends up holding
\* y's former key, while y's handle is detached from the tree and, in the
\* arena, its slot is freed
C18_ZUntouched ==
    \A k \in Keys :
        search_(rb, k).tag = "Some" =>
            LET z == search_(rb, k).val
                y == delete_victim(rb, z)
                t == delete(rb, k)
            IN y # z =>
                   /\ SlotOccupied(t, z)
                   /\ z \in Nodes(t)
                   /\ Key(t, z) = Key(rb, y)
                   /\ LinksAndColour(t, z) = LinksAndColour(rb, z)
                   /\ y \notin Nodes(t)
                   /\ ~SlotOccupied(t, y)

\* C18, amended: in delete, when the spliced node y differs from the located
\* node z, z keeps its handle and stays in the tree, ending up holding y's
\* former key, and the key copy changes neither z's colour nor its links,
\* which are those the splice and the fix-up left; y's handle is detached
\* from the tree and, in the arena, its slot is freed
C18_ZKeepsHandle ==
    /\ \A k \in Keys :
           search_(rb, k).tag = "Some" =>
               LET z == search_(rb, k).val
                   y == delete_victim(rb, z)
                   t == delete(rb, k)
               IN y # z =>
                      /\ SlotOccupied(t, z)
                      /\ z \in Nodes(t)
                      /\ Key(t, z) = Key(rb, y)
                      /\ LinksAndColour(t, z) = LinksAndColour(delete_before_free(rb, k), z)
                      /\ y \notin Nodes(t)
                      /\ ~SlotOccupied(t, y)
    /\ \A k \in Keys :
           Ptr_search_(prb, k).tag = "Some" =>
               LET z == Ptr_search_(prb, k).val
                   y == Ptr_delete_victim(prb, z)
                   t == Ptr_delete(prb, k)
               IN y # z =>
                      /\ z \in Ptr_Below(t, t.root, Len(t.heap))
                      /\ Ptr_Key(t, z) = Ptr_Key(prb, y)
                      /\ y \notin Ptr_Below(t, t.root, Len(t.heap))

\* a delete is due that splices out a black node other than z, holding another
\* key than z, and whose fix-up changes z's colour or links
C18_Witness ==
    \E k \in Keys :
        /\ search_(rb, k).tag = "Some"
        /\ Ptr_search_(prb, k).tag = "Some"
        /\ LET z == search_(rb, k).val
               y == delete_victim(rb, z)
           IN /\ y # z
              /\ ~Red(rb, y)
              /\ Key(rb, y) # Key(rb, z)
              /\ LinksAndColour(delete(rb, k), z) # LinksAndColour(rb, z)
              /\ Ptr_delete_victim(prb, Ptr_search_(prb, k).val) # Ptr_search_(prb, k).val

\* C19: in the pointer backend every delete that removes a node deallocates the
\* spliced node, so the allocated nodes are the sentinel plus the nodes
\* reachable from the root
C19_PointerNodesFreed ==
    {h \in 1 .. Len(prb.heap) : TRUE} = {prb.nil_sentinel} \cup Ptr_Reachable

\* the handles of the occupied slots of the arena of tree t
OccupiedSlots(t) == {h \in 0 .. Slab_len(t.slab) - 1 : SlotOccupied(t, h)}

\* C20: in the arena backend the occupied slots are exactly the sentinel's slot
\* plus the slots of the nodes reachable from the root; each insert occupies
\* one slot, and each delete of a found key frees exactly the spliced node's slot
C20_SlotsAreTheTree ==
    /\ OccupiedSlots(rb) = {rb.nil_sentinel} \cup Reachable
    /\ \A k \in Keys :
           LiveNodes < MaxNodes =>
               /\ OccupiedSlots(rb) \subseteq OccupiedSlots(insert(rb, k))
               /\ Cardinality(OccupiedSlots(insert(rb, k)) \ OccupiedSlots(rb)) = 1
    /\ \A k \in Keys :
           OccupiedSlots(delete(rb, k)) =
               IF search_(rb, k).tag = "Some"
               THEN OccupiedSlots(rb) \ {delete_victim(rb, search_(rb, k).val)}
               ELSE OccupiedSlots(rb)

\* a slot has been freed and not taken again, and a delete is due that frees
\* the slot of another node than the one it located
C20_Witness ==
    /\ SomeSlotFreed
    /\ Cardinality(Reachable) >= 3
    /\ \E k \in Keys :
           /\ search_(rb, k).tag = "Some"
           /\ delete_victim(rb, search_(rb, k).val) # search_(rb, k).val
           /\ ~SlotOccupied(delete(rb, k), delete_victim(rb, search_(rb, k).val))

\* C21: at the moment delete frees the spliced node y, no link field stored
\* in the arena still holds y's handle: not the root reference, not a parent or
\* child field of any remaining node, not the sentinel's parent field
C21_NoLinkToFreed ==
    \A k \in Keys :
        search_(rb, k).tag = "Some" =>
            LET y == delete_victim(rb, search_(rb, k).val)
                t == delete_before_free(rb, k)
            IN /\ t.root # y
               /\ \A h \in OccupiedSlots(t) \ {y} :
                      /\ Parent(t, h) # y
                      /\ Child(t, h, 0) # y
                      /\ Child(t, h, 1) # y

\* C21 without the sentinel's parent field: the root reference and the fields
\* of the remaining real nodes
C21_NoRealLinkToFreed ==
    \A k \in Keys :
        search_(rb, k).tag = "Some" =>
            LET y == delete_victim(rb, search_(rb, k).val)
                t == delete_before_free(rb, k)
            IN /\ t.root # y
               /\ \A h \in OccupiedSlots(t) \ {y, t.nil_sentinel} :
                      /\ Parent(t, h) # y
                      /\ Child(t, h, 0) # y
                      /\ Child(t, h, 1) # y

\* ---- the statements of the arena backend as a log of events ----
\* An event is one access to a field of a slab entry, one call of rotate, one
\* pass through the head of a loop, or one call of the slab.

\* handle h names an occupied slot of the arena of t
Live(t, h) == h \in 0 .. Slab_len(t.slab) - 1 /\ SlotOccupied(t, h)

NoTree == <<>>

\* self.slab[h].f is read, in tree t
Rd(t, f, h) ==
    [op |-> "read", f |-> f, h |-> h, d |-> 0, ok |-> Live(t, h), t |-> NoTree]

\* self.slab[h].f is written, in tree t
Wr(t, f, h) ==
    [op |-> "write", f |-> f, h |-> h, d |-> 0, ok |-> Live(t, h), t |-> NoTree]

\* the body of loop f is entered with cursor h, in tree t
AtLoop(t, f, h) ==
    [op |-> "loop", f |-> f, h |-> h, d |-> 0, ok |-> Live(t, h), t |-> t]

\* rotate(x, dir) is called, in tree t
AtRotate(t, x, dir) ==
    [op |-> "rotate", f |-> "", h |-> x, d |-> dir, ok |-> Live(t, x), t |-> t]

\* the events of SlabRedBlack::rotate(x, dir), in tree t
rotate_log(t, x, dir) ==
    LET y == Child(t, x, Flip(dir))
        y_chld == Child(t, y, dir)
        x_parent == Parent(t, x)
    IN <<AtRotate(t, x, dir),
         Rd(t, "children", x), Rd(t, "children", y), Wr(t, "children", x),
         Rd(t, "children", y)>>
       \o (IF y_chld # t.nil_sentinel THEN <<Wr(t, "parent", y_chld)>> ELSE <<>>)
       \o <<Rd(t, "parent", x), Wr(t, "parent", y), Rd(t, "parent", x)>>
       \o (IF x_parent = t.nil_sentinel THEN <<>>
           ELSE <<Rd(t, "children", x_parent), Wr(t, "children", x_parent)>>)
       \o <<Wr(t, "children", y), Wr(t, "parent", x)>>

\* insert_fixup rotating the inner child's parent, rotating it back and
\* rotating it once more
insert_fixup_bent_log_thrice(t, p, dir) ==
    rotate_log(t, p, Flip(dir))
        \o rotate_log(rotate(t, p, Flip(dir)), Parent(rotate(t, p, Flip(dir)), p), dir)
        \o rotate_log(t, p, Flip(dir))
        \o <<Rd(rotate(t, p, Flip(dir)), "parent", p),
             Rd(rotate(t, p, Flip(dir)), "parent", Parent(rotate(t, p, Flip(dir)), p))>>

\* the events of insert_fixup when z is an inner child: z = p, rotate(z, dir ^ 1),
\* p and pp are read again
insert_fixup_bent_log(t, p, dir) ==
    rotate_log(t, p, Flip(dir))
        \o <<Rd(rotate(t, p, Flip(dir)), "parent", p),
             Rd(rotate(t, p, Flip(dir)), "parent", Parent(rotate(t, p, Flip(dir)), p))>>

\* the events of the loop of SlabRedBlack::insert_fixup and of the blackening
\* of the root, from the loop test on; p0 is p at the test
RECURSIVE insert_fixup_log(_, _, _)
insert_fixup_log(t, z, p0) ==
    IF ~Red(t, p0) THEN <<Rd(t, "red", p0), Wr(t, "red", t.root)>>
    ELSE LET p == Parent(t, z)
             pp == Parent(t, p)
             dir == IF Child(t, pp, 0) = p THEN 1 ELSE 0
             y == Child(t, pp, dir)
             head == <<Rd(t, "red", p0), AtLoop(t, "insert_fixup", z),
                       Rd(t, "parent", z), Rd(t, "parent", p),
                       Rd(t, "children", pp), Rd(t, "children", pp), Rd(t, "red", y)>>
         IN IF Red(t, y)
            THEN LET s3 == SetRed(SetRed(SetRed(t, p, FALSE), y, FALSE), pp, TRUE)
                 IN head \o <<Wr(t, "red", p), Wr(t, "red", y), Wr(t, "red", pp),
                              Rd(t, "parent", pp)>>
                         \o insert_fixup_log(s3, pp, Parent(s3, pp))
            ELSE LET bent == z = Child(t, p, dir)
                     r1 == IF bent THEN rotate(t, p, Flip(dir)) ELSE t
                     z1 == IF bent THEN p ELSE z
                     p1 == IF bent THEN Parent(r1, z1) ELSE p
                     pp1 == IF bent THEN Parent(r1, p1) ELSE pp
                     s2 == SetRed(SetRed(r1, p1, FALSE), pp1, TRUE)
                     s3 == rotate(s2, pp1, dir)
                 IN head \o <<Rd(t, "children", p)>>
                         \o (IF bent THEN insert_fixup_bent_log(t, p, dir) ELSE <<>>)
                         \o <<Wr(r1, "red", p1), Wr(r1, "red", pp1)>>
                         \o rotate_log(s2, pp1, dir)
                         \o insert_fixup_log(s3, z1, p1)

\* the events of the descent of SlabRedBlack::insert for the fresh node z
RECURSIVE insert_descend_log(_, _, _)
insert_descend_log(t, z, x) ==
    IF x = t.nil_sentinel THEN <<>>
    ELSE <<AtLoop(t, "insert", x), Rd(t, "key", z), Rd(t, "key", x), Rd(t, "children", x)>>
             \o insert_descend_log(t, z, Child(t, x, IF Key(t, z) < Key(t, x) THEN 0 ELSE 1))

\* the events of SlabRedBlack::insert(key), in tree t
insert_log(t, key) ==
    LET a == Slab_insert(t.slab, Node_new(key, t.nil_sentinel))
        t0 == [t EXCEPT !.slab = a.slab]
        z == a.key
        y == insert_descend(t0, z, t0.nil_sentinel, t0.root)
        s2 == insert_attach(SetParent(t0, z, y), z, y)
        s3 == insert_redden(s2, z)
    IN insert_descend_log(t0, z, t0.root)
           \o <<Wr(t0, "parent", z)>>
           \o (IF y = t0.nil_sentinel THEN <<>>
               ELSE <<Rd(t0, "key", z), Rd(t0, "key", y), Wr(t0, "children", y)>>)
           \o <<Wr(s2, "red", z), Rd(s3, "parent", z)>>
           \o insert_fixup_log(s3, z, Parent(s3, z))

\* search_ examining a node whose key differs twice before it moves down
RECURSIVE search_log_stutter(_, _, _)
search_log_stutter(t, curr, key) ==
    IF curr = t.nil_sentinel THEN <<>>
    ELSE IF Key(t, curr) = key
         THEN <<AtLoop(t, "search_", curr), Rd(t, "key", curr)>>
         ELSE <<AtLoop(t, "search_", curr), Rd(t, "key", curr), Rd(t, "key", curr),
                AtLoop(t, "search_", curr), Rd(t, "key", curr), Rd(t, "key", curr),
                Rd(t, "children", curr)>>
                  \o search_log_stutter(t, Child(t, curr, IF Key(t, curr) < key THEN 1 ELSE 0), key)

\* the events of the loop of SlabRedBlack::search_(key), in tree t
RECURSIVE search_log(_, _, _)
search_log(t, curr, key) ==
    IF curr = t.nil_sentinel THEN <<>>
    ELSE IF Key(t, curr) = key
         THEN <<AtLoop(t, "search_", curr), Rd(t, "key", curr)>>
         ELSE <<AtLoop(t, "search_", curr), Rd(t, "key", curr), Rd(t, "key", curr),
                Rd(t, "children", curr)>>
                  \o search_log(t, Child(t, curr, IF Key(t, curr) < key THEN 1 ELSE 0), key)

\* in delete_fixup the sibling w of x, on side dir of its parent, is about to
\* be examined, in tree t
AtSibling(t, w, dir) ==
    [op |-> "sibling", f |-> "delete_fixup", h |-> w, d |-> dir, ok |-> Live(t, w), t |-> t]

\* slab.remove(y) is called, in tree t
AtFree(t, y) ==
    [op |-> "free", f |-> "", h |-> y, d |-> 0, ok |-> Live(t, y), t |-> t]

\* delete_fixup rotating w towards x's side in place of away from it
delete_fixup_near_log_flipped(t, p, w, dir) ==
    <<Wr(t, "red", Child(t, w, Flip(dir))), Wr(t, "red", w)>>
        \o rotate_log(SetRed(SetRed(t, Child(t, w, Flip(dir)), FALSE), w, TRUE), w, Flip(dir))
        \o <<Rd(rotate(t, w, dir), "children", p),
             Rd(rotate(t, w, dir), "children", Child(rotate(t, w, dir), p, dir))>>

\* delete_fixup rotating w, rotating it back and rotating it once more
delete_fixup_near_log_thrice(t, p, w, dir) ==
    <<Wr(t, "red", Child(t, w, Flip(dir))), Wr(t, "red", w)>>
        \o rotate_log(SetRed(SetRed(t, Child(t, w, Flip(dir)), FALSE), w, TRUE), w, dir)
        \o rotate_log(rotate(t, w, dir), Parent(rotate(t, w, dir), w), Flip(dir))
        \o rotate_log(SetRed(SetRed(t, Child(t, w, Flip(dir)), FALSE), w, TRUE), w, dir)
        \o <<Rd(rotate(t, w, dir), "children", p),
             Rd(rotate(t, w, dir), "children", Child(rotate(t, w, dir), p, dir))>>

\* the events of delete_fixup when the child of w on side dir is black: the
\* other child turns black, w red, rotate(w, dir), w and wc are read again
delete_fixup_near_log(t, p, w, dir) ==
    <<Wr(t, "red", Child(t, w, Flip(dir))), Wr(t, "red", w)>>
        \o rotate_log(SetRed(SetRed(t, Child(t, w, Flip(dir)), FALSE), w, TRUE), w, dir)
        \o <<Rd(rotate(t, w, dir), "children", p),
             Rd(rotate(t, w, dir), "children", Child(rotate(t, w, dir), p, dir))>>

\* delete_fixup closing with the child of w nearer x painted black in place
\* of the farther one
delete_fixup_far_log_near(t, p, w, dir) ==
    <<Rd(t, "red", p), Wr(t, "red", w), Wr(t, "red", p),
      Wr(t, "red", Child(t, w, Flip(dir)))>>
        \o rotate_log(
               SetRed(SetRed(SetRed(t, w, Red(t, p)), p, FALSE), Child(t, w, Flip(dir)), FALSE),
               p, Flip(dir))

\* delete_fixup closing with a rotation of p away from x's side in place of
\* towards it
delete_fixup_far_log_away(t, p, w, dir) ==
    <<Rd(t, "red", p), Wr(t, "red", w), Wr(t, "red", p), Wr(t, "red", Child(t, w, dir))>>
        \o rotate_log(
               SetRed(SetRed(SetRed(t, w, Red(t, p)), p, FALSE), Child(t, w, dir), FALSE),
               p, dir)

\* the events of the closing statements of an iteration of delete_fixup: w
\* takes p's colour, p and wc, the child of w on side dir, turn black,
\* rotate(p, dir ^ 1)
delete_fixup_far_log(t, p, w, dir) ==
    <<Rd(t, "red", p), Wr(t, "red", w), Wr(t, "red", p), Wr(t, "red", Child(t, w, dir))>>
        \o rotate_log(
               SetRed(SetRed(SetRed(t, w, Red(t, p)), p, FALSE), Child(t, w, dir), FALSE),
               p, Flip(dir))

\* the events of the loop of SlabRedBlack::delete_fixup and of the blackening
\* of x, from the loop test on
RECURSIVE delete_fixup_log(_, _)
delete_fixup_log(t, x) ==
    IF x = t.root THEN <<Wr(t, "red", x)>>
    ELSE IF Red(t, x) THEN <<Rd(t, "red", x), Wr(t, "red", x)>>
    ELSE LET p == Parent(t, x)
             dir == IF x = Child(t, p, 0) THEN 1 ELSE 0
             w0 == Child(t, p, dir)
             a2 == SetRed(SetRed(t, w0, FALSE), p, TRUE)
             a3 == IF Red(t, w0) THEN rotate(a2, p, Flip(dir)) ELSE t
             w == Child(a3, p, dir)
             wl == Child(a3, w, 0)
             wr == Child(a3, w, 1)
             head == <<Rd(t, "red", x), AtLoop(t, "delete_fixup", x),
                       Rd(t, "parent", x), Rd(t, "children", p), Rd(t, "children", p),
                       Rd(t, "red", w0)>>
                     \o (IF Red(t, w0)
                         THEN <<Wr(t, "red", w0), Wr(t, "red", p)>>
                                  \o rotate_log(a2, p, Flip(dir))
                                  \o <<Rd(a3, "children", p)>>
                         ELSE <<>>)
                     \o <<AtSibling(a3, w, dir),
                          Rd(a3, "children", w), Rd(a3, "children", w), Rd(a3, "red", wl)>>
                     \o (IF ~Red(a3, wl) THEN <<Rd(a3, "red", wr)>> ELSE <<>>)
         IN IF ~Red(a3, wl) /\ ~Red(a3, wr)
            THEN head \o <<Wr(a3, "red", w)>>
                      \o delete_fixup_log(delete_fixup_redden(a3, p, dir), p)
            ELSE LET wo == Child(a3, w, Flip(dir))
                     near == ~Red(a3, Child(a3, w, dir))
                     b2 == SetRed(SetRed(a3, wo, FALSE), w, TRUE)
                     b3 == IF near THEN rotate(b2, w, dir) ELSE a3
                     w2 == Child(b3, p, dir)
                     wc == Child(b3, w2, dir)
                     c3 == SetRed(SetRed(SetRed(b3, w2, Red(b3, p)), p, FALSE), wc, FALSE)
                     c4 == rotate(c3, p, Flip(dir))
                 IN head \o <<Rd(a3, "children", w), Rd(a3, "children", w),
                              Rd(a3, "red", Child(a3, w, dir))>>
                         \o (IF near THEN delete_fixup_near_log(a3, p, w, dir) ELSE <<>>)
                         \o delete_fixup_far_log(b3, p, w2, dir)
                         \o delete_fixup_log(c4, c4.root)

\* the events of SlabRedBlack::tree_minimum(x), in tree t
RECURSIVE tree_minimum_log(_, _)
tree_minimum_log(t, x) ==
    IF Child(t, x, 0) # t.nil_sentinel
    THEN <<Rd(t, "children", x), AtLoop(t, "tree_minimum", Child(t, x, 0))>>
             \o tree_minimum_log(t, Child(t, x, 0))
    ELSE <<Rd(t, "children", x)>>

\* the events of the choice of y in SlabRedBlack::delete, in tree t
delete_victim_log(t, z) ==
    IF Child(t, z, 0) = t.nil_sentinel THEN <<Rd(t, "children", z)>>
    ELSE IF Child(t, z, 1) = t.nil_sentinel
         THEN <<Rd(t, "children", z), Rd(t, "children", z)>>
         ELSE <<Rd(t, "children", z), Rd(t, "children", z), Rd(t, "children", z)>>
                  \o tree_minimum_log(t, z)

\* the events of SlabRedBlack::delete(key), in tree t
delete_log(t, key) ==
    IF search_(t, key).tag = "None" THEN search_log(t, t.root, key)
    ELSE LET z == search_(t, key).val
             y == delete_victim(t, z)
             x == Child(t, y, IF Child(t, y, 0) # t.nil_sentinel THEN 0 ELSE 1)
             yp == Parent(t, y)
             s1 == SetParent(t, x, yp)
             s2 == delete_relink(s1, yp, y, x)
             s3 == delete_rebalance(s2, y, x)
         IN search_log(t, t.root, key)
                \o delete_victim_log(t, z)
                \o <<Rd(t, "children", y), Rd(t, "children", y), Rd(t, "parent", y),
                     Wr(t, "parent", x)>>
                \o (IF yp = t.nil_sentinel THEN <<>>
                    ELSE <<Rd(s1, "children", yp), Wr(s1, "children", yp)>>)
                \o <<Rd(s2, "red", y)>>
                \o (IF ~Red(s2, y) THEN delete_fixup_log(s2, x) ELSE <<>>)
                \o <<AtFree(s3, y)>>
                \o (IF y # z THEN <<Wr(delete_free(s3, z, y), "key", z)>> ELSE <<>>)

\* the events of kind op in the sequence log
Events(log, op) == {i \in DOMAIN log : log[i].op = op}

\* the passes through the head of loop f in the sequence log
Passes(log, f) == {i \in DOMAIN log : log[i].op = "loop" /\ log[i].f = f}

\* C22: a single insert call performs at most two rotations
C22_InsertRotations ==
    \A k \in Keys :
        LiveNodes < MaxNodes => Cardinality(Events(insert_log(rb, k), "rotate")) <= 2

\* there is room for an insert and a slot has been freed; an insert is due
\* that rotates twice, and another that rotates once
C22_Witness ==
    /\ LiveNodes < MaxNodes
    /\ SomeSlotFreed
    /\ \E k \in Keys : Cardinality(Events(insert_log(rb, k), "rotate")) = 2
    /\ \E k \in Keys : Cardinality(Events(insert_log(rb, k), "rotate")) = 1

\* C23: a single delete call performs at most three rotations
C23_DeleteRotations ==
    \A k \in DeepKeys : Cardinality(Events(delete_log(rb, k), "rotate")) <= 3

\* a delete is due that rotates three times
C23_Witness ==
    \E k \in DeepKeys : Cardinality(Events(delete_log(rb, k), "rotate")) = 3

\* the logs are those of the calls: every rotation of a log is a step of the
\* call's trace, and the tree in which a delete frees y is the tree the trace
\* has just before
LogsAgree ==
    \A k \in Keys :
        /\ LET log == delete_log(rb, k)
               tr == delete_trace(rb, k)
           IN /\ \A i \in Events(log, "free") : log[i].t = tr[Len(tr) - 1]
              /\ \A i \in Events(log, "rotate") :
                     \E j \in 1 .. Len(tr) - 1 :
                         tr[j] = log[i].t /\ tr[j + 1] = rotate(log[i].t, log[i].h, log[i].d)
        /\ LiveNodes < MaxNodes =>
               LET log == insert_log(rb, k)
                   tr == insert_trace(rb, k)
               IN \A i \in Events(log, "rotate") :
                      \E j \in 1 .. Len(tr) - 1 :
                          tr[j] = log[i].t /\ tr[j + 1] = rotate(log[i].t, log[i].h, log[i].d)

\* event j of the log comes after event i, at or before the next call of
\* rotate, in the same iteration of delete_fixup
NextRotate(log, i, j) ==
    /\ i < j
    /\ log[j].op = "rotate"
    /\ \A m \in i + 1 .. j - 1 : log[m].op \notin {"rotate", "loop"}

\* C24 as stated, with w on side d of p and x on the other side: when w is
\* black, its child on x's side is black and its child on the far side is red,
\* the step paints the far child black and w red and calls rotate(w, d) before
\* the closing statements run
C24_FarRedRotatesW ==
    \A k \in Keys :
        LET log == delete_log(rb, k)
        IN \A i \in Events(log, "sibling") :
               LET a == log[i].t
                   w == log[i].h
                   d == log[i].d
               IN (~Red(a, w) /\ ~Red(a, Child(a, w, Flip(d))) /\ Red(a, Child(a, w, d))) =>
                      \E j \in DOMAIN log :
                          /\ NextRotate(log, i, j)
                          /\ log[j].h = w
                          /\ log[j].d = d
                          /\ Red(log[j].t, w)
                          /\ ~Red(log[j].t, Child(a, w, d))

\* C24, amended, with w on side d of p and x on the other side: when w is
\* black, its child on the far side is black and its child on x's side is red,
\* the step paints the child on x's side black and w red and calls
\* rotate(w, d) before the closing statements run
C24_NearRedRotatesW ==
    \A k \in Keys :
        LET log == delete_log(rb, k)
        IN \A i \in Events(log, "sibling") :
               LET a == log[i].t
                   w == log[i].h
                   d == log[i].d
               IN (~Red(a, w) /\ ~Red(a, Child(a, w, d)) /\ Red(a, Child(a, w, Flip(d)))) =>
                      \E j \in DOMAIN log :
                          /\ NextRotate(log, i, j)
                          /\ log[j].h = w
                          /\ log[j].d = d
                          /\ Red(log[j].t, w)
                          /\ ~Red(log[j].t, Child(a, w, Flip(d)))
                          /\ \E m \in DOMAIN log :
                                 /\ NextRotate(log, j, m)
                                 /\ log[m].h = Parent(a, w)
                                 /\ log[m].d = Flip(d)

\* a delete is due whose fix-up meets a black sibling with a real black child
\* on the far side and a red child on x's side
C24_Witness ==
    \E k \in Keys :
        \E i \in Events(delete_log(rb, k), "sibling") :
            LET a == delete_log(rb, k)[i].t
                w == delete_log(rb, k)[i].h
                d == delete_log(rb, k)[i].d
            IN /\ ~Red(a, w)
               /\ ~Red(a, Child(a, w, d))
               /\ Red(a, Child(a, w, Flip(d)))
               /\ Cardinality(Events(delete_log(rb, k), "rotate")) = 2

\* C25 as stated, with w on side d of p and x on the other side: the closing
\* statements (w takes p's colour, p turns black, rotate(p, d ^ 1), x = root)
\* are the ones run when w is black and its child on x's side is red, and the
\* child they paint black is that child on x's side
C25_NearRedTerminates ==
    \A k \in Keys :
        LET log == delete_log(rb, k)
        IN \A i \in Events(log, "sibling") :
               LET a == log[i].t
                   w == log[i].h
                   d == log[i].d
               IN (~Red(a, w) /\ Red(a, Child(a, w, Flip(d)))) =>
                      \E j \in DOMAIN log :
                          /\ NextRotate(log, i, j)
                          /\ log[j].h = Parent(a, w)
                          /\ log[j].d = Flip(d)
                          /\ Red(log[j].t, w) = Red(a, Parent(a, w))
                          /\ ~Red(log[j].t, Parent(a, w))
                          /\ ~Red(log[j].t, Child(a, w, Flip(d)))

\* C25, amended, with w on side d of p and x on the other side: the closing
\* statements (w takes p's colour, p turns black, rotate(p, d ^ 1), x = root)
\* are the ones run when w is black and its child on the far side is red, and
\* the child they paint black is that child on the far side
C25_FarRedTerminates ==
    \A k \in Keys :
        LET log == delete_log(rb, k)
        IN \A i \in Events(log, "sibling") :
               LET a == log[i].t
                   w == log[i].h
                   d == log[i].d
               IN (~Red(a, w) /\ Red(a, Child(a, w, d))) =>
                      /\ \E j \in DOMAIN log :
                             /\ NextRotate(log, i, j)
                             /\ log[j].h = Parent(a, w)
                             /\ log[j].d = Flip(d)
                             /\ Red(log[j].t, w) = Red(a, Parent(a, w))
                             /\ ~Red(log[j].t, Parent(a, w))
                             /\ ~Red(log[j].t, Child(a, w, d))
                      /\ \A m \in Passes(log, "delete_fixup") : m < i

\* a delete is due whose fix-up meets a black sibling with a red child on the
\* far side and none on x's side, and rotates once
C25_Witness ==
    \E k \in Keys :
        \E i \in Events(delete_log(rb, k), "sibling") :
            LET a == delete_log(rb, k)[i].t
                w == delete_log(rb, k)[i].h
                d == delete_log(rb, k)[i].d
            IN /\ ~Red(a, w)
               /\ Red(a, Child(a, w, d))
               /\ Child(a, w, Flip(d)) = a.nil_sentinel
               /\ Cardinality(Events(delete_log(rb, k), "rotate")) = 1

\* the handle insert(key) gets from the slab for its new node, in tree t
insert_handle(t, key) == Slab_insert(t.slab, Node_new(key, t.nil_sentinel)).key

\* the tree as insert(key) has it once the new node is linked, before it is
\* painted red and fixed up
insert_linked(t, key) == insert_trace(t, key)[4]

\* some node of tree t has a key equal to its own in its left subtree
EqualKeyOnLeft(t) ==
    \E n \in Nodes(t) :
        \E m \in Below(t, Child(t, n, 0), Slab_len(t.slab)) : Key(t, m) = Key(t, n)

\* C26 as stated: duplicates lie only in right subtrees: no node's left
\* subtree contains a key equal to that node's own key
C26_DuplicatesOnRight == ~EqualKeyOnLeft(rb)

\* C26, amended: insert links its new node into the right subtree of every
\* node with an equal key that its descent passes: when the new node is linked,
\* no node with an equal key has it in its left subtree; the rotations of a
\* fix-up may afterwards move an equal key into a left subtree
C26_LinkedOnRight ==
    \A k \in Keys :
        LiveNodes < MaxNodes =>
            LET s == insert_linked(rb, k)
                z == insert_handle(rb, k)
            IN /\ z \in Nodes(s)
               /\ Key(s, z) = k
               /\ \A n \in Nodes(s) \ {z} :
                      Key(s, n) = k => z \notin Below(s, Child(s, n, 0), Slab_len(s.slab))

\* an equal key already sits in some left subtree, and an insert is due whose
\* descent passes two nodes holding the new key and goes right at both
C26_Witness ==
    /\ EqualKeyOnLeft(rb)
    /\ \E k \in Keys :
           /\ LiveNodes < MaxNodes
           /\ Cardinality({n \in Nodes(rb) : Key(rb, n) = k
                              /\ insert_handle(rb, k) \in
                                     Below(insert_linked(rb, k),
                                           Child(insert_linked(rb, k), n, 1),
                                           Slab_len(rb.slab) + 1)}) >= 2

\* number of parent links from node h up to the root of tree t
RECURSIVE Depth(_, _, _)
Depth(t, h, fuel) ==
    IF h = t.root \/ fuel = 0 THEN 0 ELSE 1 + Depth(t, Parent(t, h), fuel - 1)

\* in the sequence log, every further pass through the head of loop f finds
\* its cursor strictly closer to the root than the pass before
CursorRises(log, f) ==
    \A i, j \in Passes(log, f) :
        i < j => Depth(log[j].t, log[j].h, Slab_len(log[j].t.slab))
                     < Depth(log[i].t, log[i].h, Slab_len(log[i].t.slab))

C27_InsertTwice ==
    \E k \in TallKeys : Cardinality(Passes(insert_log(rb, k), "insert_fixup")) >= 2

RECURSIVE Visits(_, _, _)
Visits(t, h, fuel) ==
    IF h = t.nil_sentinel \/ fuel = 0 THEN 0
    ELSE 1 + Visits(t, Child(t, h, 0), fuel - 1) + Visits(t, Child(t, h, 1), fuel - 1)

\* the links of the arena tree t agree with each other: a real root has the
\* sentinel as parent, every child of a reachable node is the sentinel or a
\* live node whose parent is that node, and no node is met on two paths
LinksConsistent(t) ==
    /\ t.root # t.nil_sentinel => Live(t, t.root) /\ Parent(t, t.root) = t.nil_sentinel
    /\ \A n \in Nodes(t) : \A d \in {0, 1} :
           LET c == Child(t, n, d)
           IN c # t.nil_sentinel => Live(t, c) /\ Parent(t, c) = n
    /\ Visits(t, t.root, Slab_len(t.slab)) = Cardinality(Nodes(t))

ThroughLive(e) == e.ok

\* at a call rotate(x, dir) the child of x on side dir ^ 1 is a real node
RotatePivotReal(e) ==
    e.op = "rotate" /\ e.ok =>
        /\ Child(e.t, e.h, Flip(e.d)) # e.t.nil_sentinel
        /\ Live(e.t, Child(e.t, e.h, Flip(e.d)))

\* at a pass through insert_fixup's loop the grandparent of z is a real node
GrandparentReal(e) ==
    e.op = "loop" /\ e.f = "insert_fixup" /\ e.ok =>
        /\ Live(e.t, Parent(e.t, e.h))
        /\ Parent(e.t, Parent(e.t, e.h)) # e.t.nil_sentinel
        /\ Live(e.t, Parent(e.t, Parent(e.t, e.h)))

\* the sibling w examined by delete_fixup is a real node
SiblingReal(e) == e.op = "sibling" => e.ok /\ e.h # e.t.nil_sentinel

\* event e reads or writes field f of the sentinel nil
OnSentinel(e, nil, f) == e.op \in {"read", "write"} /\ e.f = f /\ e.h = nil

\* the positions of log at which the sentinel's parent field is read
SentinelParentReads(log, nil) ==
    {i \in DOMAIN log : log[i].op = "read" /\ OnSentinel(log[i], nil, "parent")}

\* position i of log is the read of the cursor's parent at the head of a pass
\* through delete_fixup's loop, and an earlier event of log wrote the
\* sentinel's parent field
ReadAfterSet(log, nil, i) ==
    /\ i > 1 /\ log[i - 1].op = "loop" /\ log[i - 1].f = "delete_fixup"
    /\ \E j \in 1 .. i - 1 : log[j].op = "write" /\ OnSentinel(log[j], nil, "parent")

\* every event of log goes through a live handle and meets real nodes where
\* the code needs them, and the sentinel's parent is read only once set
SafeLog(log, nil) ==
    /\ \A i \in DOMAIN log :
           /\ ThroughLive(log[i])
           /\ RotatePivotReal(log[i])
           /\ GrandparentReal(log[i])
           /\ SiblingReal(log[i])
           /\ ~OnSentinel(log[i], nil, "children")
    /\ \A i \in SentinelParentReads(log, nil) : ReadAfterSet(log, nil, i)

\* C29: no step of insert, delete or the fixups reads or writes through NULL
\* or through the handle of a freed slot: rotate(x, dir) is called only when
\* the child of x on side dir ^ 1 is real, the grandparent in insert_fixup and
\* the sibling in delete_fixup are real, the sentinel's child fields are never
\* read or written, and the sentinel's parent is read only in delete_fixup,
\* after the same delete call has set it
C29_NoWildAccess ==
    \A k \in 0 .. TallMaxKey + 1 :
        /\ SafeLog(insert_log(rb, k), rb.nil_sentinel)
        /\ SentinelParentReads(insert_log(rb, k), rb.nil_sentinel) = {}
        /\ SafeLog(delete_log(rb, k), rb.nil_sentinel)

\* a tree with a freed slot on which one delete enters delete_fixup with the
\* sentinel as cursor, reads the sentinel's parent and rotates, and one insert
\* rotates in insert_fixup
C29_Witness ==
    /\ SomeSlotFreed
    /\ \E k \in TallKeys :
           /\ SentinelParentReads(delete_log(rb, k), rb.nil_sentinel) # {}
           /\ Events(delete_log(rb, k), "rotate") # {}
           /\ Events(delete_log(rb, k), "sibling") # {}
    /\ \E k \in TallKeys :
           /\ Passes(insert_log(rb, k), "insert_fixup") # {}
           /\ Events(insert_log(rb, k), "rotate") # {}

====
